---- MODULE Spec2Model ----
(***************************************************************************)
(* Model of the covariance-ellipse routine of Uncertainty_plotting.ipynb:  *)
(* cov_to_ellipse (a 2x2 covariance matrix to the parameters of its        *)
(* 1-sigma ellipse) and plot_ellipse (one ellipse per table row, added to  *)
(* an axes).                                                               *)
(*                                                                         *)
(* Numbers.  The routine works over floats; the model carries the same     *)
(* quantities exactly:                                                     *)
(*   - x, y, sx, sy are integers; pxy and the entries of cov are carried   *)
(*     in units of 1/2 (pxy = 1 stands for rho = 0.5, pxy = 3 for 1.5);    *)
(*   - a singular value is carried in units of 1/4 as a surd               *)
(*     p + s*sqrt(rad), s in {-1,0,1};                                     *)
(*   - a length (width, height) is carried as its sign and its square;     *)
(*   - an angle is carried as the multiple of 45 degrees at or below it,   *)
(*     whether it is exactly that multiple, and the direction of its       *)
(*     double angle (which tells apart two angles of the same sector).     *)
(* A float that is not finite is NaN.                                      *)
(***************************************************************************)
EXTENDS Integers, Sequences, FiniteSets, TLC

\* ------------------------------------------------------------------ bounds
MaxRows  == 2      \* longest table in a batch
MaxX     == 1      \* x of a row is in 0..MaxX
MaxSigma == 3      \* sx and sy of a row are in 0..MaxSigma
MaxPxy   == 3      \* pxy of a row is in -MaxPxy..MaxPxy halves
MaxK     == 2      \* scale factors are in 1..MaxK
MaxDim   == 2      \* x, y and r of a shape are in 1..MaxDim
MaxStep  == 1      \* dx and dy of a move are in -MaxStep..MaxStep
MaxMoves == 2      \* move is called at most MaxMoves times on a shape
MaxInt   == 2      \* the caller's integers are in -MaxInt..MaxInt
MaxCalls == 3      \* alpha and beta are called at most MaxCalls times in all

\* ------------------------------------------------------------- float model
\* a non-finite cell of the table (a missing or 'nan' entry of data.csv)
NaN == -999

IsNaN(v) == v = NaN

\* v**2
Sq(v) == IF IsNaN(v) THEN NaN ELSE v * v

\* u * v
Mul(u, v) == IF IsNaN(u) \/ IsNaN(v) THEN NaN ELSE u * v

Abs(n) == IF n < 0 THEN 0 - n ELSE n

RECURSIVE ISqrt(_)
\* floor of the square root of n >= 0
ISqrt(n) ==
    IF n < 2 THEN n
    ELSE LET r == 2 * ISqrt(n \div 4)
         IN  IF (r + 1) * (r + 1) <= n THEN r + 1 ELSE r

IsSquare(n) == n >= 0 /\ ISqrt(n) * ISqrt(n) = n

RECURSIVE GCD(_, _)
GCD(m, n) == IF n = 0 THEN Abs(m) ELSE GCD(n, m % n)

\* the surd p + s*sqrt(rad) in its one normal form: s = 0 and rad = 0 when
\* the value is an integer, rad a non-square otherwise
Surd(p, s, rad) ==
    IF s = 0 \/ rad = 0 THEN [p |-> p, s |-> 0, rad |-> 0]
    ELSE IF IsSquare(rad) THEN [p |-> p + s * ISqrt(rad), s |-> 0, rad |-> 0]
    ELSE [p |-> p, s |-> s, rad |-> rad]

SurdInt(n) == [p |-> n, s |-> 0, rad |-> 0]

\* p + s*sqrt(rad) < 0
SurdNeg(v) ==
    CASE v.s = 0  -> v.p < 0
      [] v.s = 1  -> v.p < 0 /\ v.p * v.p > v.rad
      [] v.s = -1 -> v.p < 0 \/ v.p * v.p < v.rad

SurdZero(v) == v.s = 0 /\ v.p = 0

\* ------------------------------------------------------------ scipy, numpy
\* cov is <<<<a, b>>, <<c, d>>>>, entries in halves
Finite(cov) == \A r \in 1..2 : \A c \in 1..2 : ~IsNaN(cov[r][c])

\* sl.svd checks its argument (check_finite=True) and raises ValueError
\* "array must not contain infs or NaNs"
SvdRaises(cov) == ~Finite(cov)

\* the direction <<c, s>> reduced to lowest terms (<<0, 0>> stays)
Primitive(c, s) ==
    LET g == GCD(Abs(c), Abs(s))
    IN  IF g = 0 THEN <<0, 0>> ELSE <<c \div g, s \div g>>

\* The signs sl.svd may give the first left singular vector.  The SVD fixes
\* each singular vector up to its sign only.  On a diagonal matrix LAPACK has
\* nothing to rotate: U is the identity or, when it has to put the larger
\* value first, the permutation, and the vector points along +x or +y.
\* Otherwise the sign is the LAPACK build's (the Householder step of the
\* reference gesdd makes it negative for a matrix of positive entries).
SvdSigns(cov) == IF cov[1][2] = 0 THEN {1} ELSE {1, -1}

\* sl.svd called with overwrite_a=True may use its argument as workspace
svd_leaves_Overwrite(a) == <<<<0, 0>>, <<0, 0>>>>

\* what sl.svd leaves in the array it was given: overwrite_a defaults to
\* False, so the decomposition works on a copy
svd_leaves(a) == a

\* the decomposition in the order of scipy.linalg.eigh, the smaller value
\* and its vector first
svd_Ascending(cov, sgn) ==
    LET a    == cov[1][1]
        b    == cov[1][2]
        d    == cov[2][2]
        T    == a + d
        Disc == (a - d) * (a - d) + 4 * b * b
        big  == Surd(Abs(T), 1, Disc)
        small == IF T * T >= Disc THEN Surd(Abs(T), -1, Disc)
                                  ELSE Surd(0 - Abs(T), 1, Disc)
        dir  == IF T >= 0 THEN Primitive(d - a, 0 - 2 * b)
                          ELSE Primitive(a - d, 2 * b)
    IN  [U0 |-> [dir |-> dir, sgn |-> sgn], s |-> <<small, big>>]

\* sl.svd(cov, full_matrices=False) of a finite symmetric 2x2 matrix.
\* The eigenvalues of [[a, b], [b, d]] are (T +- sqrt(Disc)) / 2 with
\* T = a + d and Disc = (a-d)^2 + 4b^2; the singular values are their
\* absolute values, the larger first.  With cov in halves, T +- sqrt(Disc)
\* is the eigenvalue in quarters.  U0 is the first column of U: sgn times
\* the unit vector of the principal direction psi, where the double angle
\* 2*psi has the direction of (a - d, 2b) for the eigenvalue with + and the
\* opposite direction for the one with -.
svd(cov, sgn) ==
    LET a    == cov[1][1]
        b    == cov[1][2]
        d    == cov[2][2]
        T    == a + d
        Disc == (a - d) * (a - d) + 4 * b * b
        big  == Surd(Abs(T), 1, Disc)
        small == IF T * T >= Disc THEN Surd(Abs(T), -1, Disc)
                                  ELSE Surd(0 - Abs(T), 1, Disc)
        dir  == IF T >= 0 THEN Primitive(a - d, 2 * b)
                          ELSE Primitive(d - a, 0 - 2 * b)
    IN  [U0 |-> [dir |-> dir, sgn |-> sgn], s |-> <<big, small>>]

\* arctan2 with its arguments exchanged, arctan2(U[0,0], U[1,0]): the angle
\* from the y-axis, 90 - theta, brought back into (-180, 180]
arctan2_degrees_Swapped(u) ==
    LET c2 == u.dir[1]
        s2 == u.dir[2]
        exact == c2 = 0 \/ s2 = 0
        psi == CASE s2 = 0 /\ c2 >= 0 -> 0
                 [] s2 > 0 /\ c2 > 0  -> 0
                 [] s2 > 0 /\ c2 = 0  -> 45
                 [] s2 > 0 /\ c2 < 0  -> 45
                 [] s2 = 0 /\ c2 < 0  -> 90
                 [] s2 < 0 /\ c2 < 0  -> 90
                 [] s2 < 0 /\ c2 = 0  -> 135
                 [] s2 < 0 /\ c2 > 0  -> 135
        theta == IF u.sgn = 1 THEN psi
                 ELSE IF psi = 0 /\ exact THEN 180 ELSE psi - 180
        comp == IF exact THEN 90 - theta ELSE 45 - theta
        deg == IF comp > 180 \/ (comp = 180 /\ ~exact) THEN comp - 360 ELSE comp
    IN  [deg |-> deg, exact |-> exact, dir |-> <<0 - c2, s2>>]

\* the angle brought into [0, 360), as by "% 360"
arctan2_degrees_Mod360(u) ==
    LET c2 == u.dir[1]
        s2 == u.dir[2]
        exact == c2 = 0 \/ s2 = 0
        psi == CASE s2 = 0 /\ c2 >= 0 -> 0
                 [] s2 > 0 /\ c2 > 0  -> 0
                 [] s2 > 0 /\ c2 = 0  -> 45
                 [] s2 > 0 /\ c2 < 0  -> 45
                 [] s2 = 0 /\ c2 < 0  -> 90
                 [] s2 < 0 /\ c2 < 0  -> 90
                 [] s2 < 0 /\ c2 = 0  -> 135
                 [] s2 < 0 /\ c2 > 0  -> 135
    IN  [deg |-> IF u.sgn = 1 THEN psi ELSE psi + 180, exact |-> exact,
         dir |-> u.dir]

\* np.degrees(np.arctan2(U[1,0], U[0,0])) for the vector u = sgn * (cos psi,
\* sin psi), psi in [0, 180) the half of the double angle of direction dir.
\* The result is in (-180, 180]: psi for sgn = 1; psi - 180 for sgn = -1,
\* except that u = (-1, 0) gives 180.
arctan2_degrees(u) ==
    LET c2 == u.dir[1]
        s2 == u.dir[2]
        psi == CASE s2 = 0 /\ c2 >= 0 -> [deg |-> 0,   exact |-> TRUE]
                 [] s2 > 0 /\ c2 > 0  -> [deg |-> 0,   exact |-> FALSE]
                 [] s2 > 0 /\ c2 = 0  -> [deg |-> 45,  exact |-> TRUE]
                 [] s2 > 0 /\ c2 < 0  -> [deg |-> 45,  exact |-> FALSE]
                 [] s2 = 0 /\ c2 < 0  -> [deg |-> 90,  exact |-> TRUE]
                 [] s2 < 0 /\ c2 < 0  -> [deg |-> 90,  exact |-> FALSE]
                 [] s2 < 0 /\ c2 = 0  -> [deg |-> 135, exact |-> TRUE]
                 [] s2 < 0 /\ c2 > 0  -> [deg |-> 135, exact |-> FALSE]
        deg == IF u.sgn = 1 THEN psi.deg
               ELSE IF psi.deg = 0 /\ psi.exact THEN 180
               ELSE psi.deg - 180
    IN  [deg |-> deg, exact |-> psi.exact, dir |-> u.dir]

\* np.sqrt: the non-negative root, nan for a negative argument
np_sqrt(v) ==
    IF SurdNeg(v) THEN [nan |-> TRUE, sign |-> 1, sq |-> SurdInt(0)]
    ELSE [nan |-> FALSE, sign |-> 1, sq |-> v]

\* 2 * np.sqrt(eigval), eigval carried in quarters: 2*sqrt(v/4) = sqrt(v)
TwiceSqrt(v) == np_sqrt(v)

\* matplotlib.patches.Ellipse(xy, width, height, angle)
Ellipse(xy, width, height, angle) ==
    [kind |-> "Ellipse", xy |-> xy, width |-> width, height |-> height,
     angle |-> angle]

\* ----------------------------------------------------------- the notebook
\* the axis lengths taken from the first row of cov, 2 * np.sqrt(cov[0]),
\* instead of from the singular values
cov_to_ellipse_CovRow(cov, pos, sgn) ==
    LET d      == svd(cov, sgn)
        theta  == arctan2_degrees(d.U0)
        width  == TwiceSqrt(SurdInt(2 * cov[1][1]))
        height == TwiceSqrt(SurdInt(2 * cov[1][2]))
    IN  Ellipse(pos, width, height, theta)

\* cov_to_ellipse(cov, pos); sgn is the sign sl.svd gives U[:, 0]
cov_to_ellipse(cov, pos, sgn) ==
    LET d      == svd(cov, sgn)
        theta  == arctan2_degrees(d.U0)
        width  == TwiceSqrt(d.s[1])
        height == TwiceSqrt(d.s[2])
    IN  Ellipse(pos, width, height, theta)

\* the diagonal without the squares: sx and sy instead of sx**2 and sy**2
Cov_NoSquare(row) ==
    <<<<Mul(2, row.sx), Mul(Mul(row.pxy, row.sx), row.sy)>>,
      <<Mul(Mul(row.pxy, row.sx), row.sy), Mul(2, row.sy)>>>>

\* the off-diagonal without the sigmas: pxy instead of pxy*sx*sy
Cov_OffDiagRho(row) ==
    <<<<Mul(2, Sq(row.sx)), Mul(row.pxy, IF IsNaN(row.sx) THEN NaN ELSE 1)>>,
      <<Mul(row.pxy, IF IsNaN(row.sx) THEN NaN ELSE 1), Mul(2, Sq(row.sy))>>>>

\* the matrix plot_ellipse builds for a row, in halves (pxy is in halves):
\* [[sx**2, pxy*sx*sy], [pxy*sx*sy, sy**2]]
Cov(row) ==
    <<<<Mul(2, Sq(row.sx)), Mul(Mul(row.pxy, row.sx), row.sy)>>,
      <<Mul(Mul(row.pxy, row.sx), row.sy), Mul(2, Sq(row.sy))>>>>

\* [row['x'], row['y']]
Pos(row) == <<row.x, row.y>>

\* the axes cleared before the new artist is added
add_artist_Replace(held, ellip) == <<ellip>>

\* the new artist put before the ones held
add_artist_Front(held, ellip) == <<ellip>> \o held

\* ax.add_artist(ellip)
add_artist(held, ellip) == Append(held, ellip)

\* ------------------------------------------------------------------ state
VARIABLES
    t,        \* the table: a sequence of rows [x, y, sx, sy, pxy]
    ax,       \* plot_ellipse's ax: "None" or the name of an axes
    artists,  \* for each axes, the artists it holds, in the order added
    pc,       \* "call", "loop", "done" (returned) or "raised"
    i,        \* the row the for loop is at (1-based)
    exc,      \* the exception plot_ellipse ended with, "" when none
    cov_local,  \* the loop's cov after its last pass, <<>> before the first
    pos_local   \* the pos given to cov_to_ellipse in that pass

\* the variables of plot_ellipse
evars == <<t, ax, artists, pc, i, exc, cov_local, pos_local>>

\* General_Python.ipynb: one object of the classes Shape, Square, Circle
VARIABLES
    obj,      \* the object: its class and its attributes
    born,     \* the object as its __init__ left it
    moved,    \* <<sum of the dx, sum of the dy>> of the calls of move on it
    nmoves    \* the number of those calls

svars == <<obj, born, moved, nmoves>>

\* General_Python.ipynb: the callers of alpha and beta
VARIABLES
    x_int,    \* the caller's x when it is an integer (x = 1)
    x_list,   \* the caller's x when it is a list (x = [1]): the list's id
    heap,     \* the list objects by id; <<>> at an id not in use
    ret,      \* what the last call returned: an integer or a list's id
    last,     \* the function called last: "alpha", "beta" or "none"
    x0,       \* the caller's integer before any call
    l0,       \* the contents of the caller's list before any call
    ncalls,   \* the number of calls of alpha and beta
    nbeta     \* the number of calls of beta

avars == <<x_int, x_list, heap, ret, last, x0, l0, ncalls, nbeta>>

vars == <<evars, svars, avars>>

\* the axes of figure 4 (what plt.gca() gives) and one more axes
AxesNames == {"gca", "other"}

\* plt.plot(t['x'], t['y'], 's', ...) has drawn on the current axes
Line2D == [kind |-> "Line2D"]

\* rows of a batch: the centre varies; the uncertainty is a valid one
\* (rho = 0), an invalid one (rho = MaxPxy/2 > 1) or a non-finite one
BatchRows ==
    [x : 0..MaxX, y : {0, 1}, sx : {1, NaN}, sy : {1}, pxy : {0, MaxPxy}]

\* rows of a one-row table: the uncertainty varies
WideRows ==
    [x : {0}, y : {0}, sx : (0..MaxSigma) \cup {NaN}, sy : 0..MaxSigma,
     pxy : (0 - MaxPxy)..MaxPxy]

RECURSIVE SeqsUpTo(_, _)
\* the sequences over S of length at most n
SeqsUpTo(S, n) ==
    IF n = 0 THEN {<<>>}
    ELSE LET shorter == SeqsUpTo(S, n - 1)
         IN  shorter \cup {Append(q, r) : q \in shorter, r \in S}

Tables == SeqsUpTo(BatchRows, MaxRows) \cup {<<r>> : r \in WideRows}

\* class Shape: __init__(self, x, y, cx=0.0, cy=0.0)
Shape_init(x, y, cx, cy) ==
    [cls |-> "Shape", name |-> "rectangle", x |-> x, y |-> y,
     cx |-> cx, cy |-> cy]

\* class Square(Shape): __init__(self, x, cx=0.0, cy=0.0)
Square_init(x, cx, cy) ==
    [cls |-> "Square", name |-> "square", x |-> x, y |-> x,
     cx |-> cx, cy |-> cy]

\* class Circle(Shape): __init__(self, r, cx=0.0, cy=0.0)
Circle_init(r, cx, cy) ==
    [cls |-> "Circle", name |-> "circle", r |-> r, cx |-> cx, cy |-> cy]

\* self.area(): Circle overrides it with np.pi * self.r**2, Square inherits
\* Shape's self.x * self.y.  The value is rat + pi * np.pi.
area(self) ==
    IF self.cls = "Circle" THEN [rat |-> 0, pi |-> self.r * self.r]
    ELSE [rat |-> self.x * self.y, pi |-> 0]

\* move with dx added to both coordinates
move_Typo(self, dx, dy) == [self EXCEPT !.cx = @ + dx, !.cy = @ + dx]

\* Shape.move(self, dx, dy), which Square and Circle inherit
move(self, dx, dy) == [self EXCEPT !.cx = @ + dx, !.cy = @ + dy]

\* shape_list[0] = Shape(1, 2), before any move
ShapeIdle ==
    /\ obj = Shape_init(1, 2, 0, 0)
    /\ born = obj
    /\ moved = <<0, 0>>
    /\ nmoves = 0

\* "global x" declared in alpha: the assignment rebinds the caller's x
alpha_Global(x) == [ret |-> x + 1, caller |-> x + 1]

\* alpha(x): x = x + 1 binds alpha's own name x; ret is the value returned,
\* caller is the caller's x after the call
alpha(x) == [ret |-> x + 1, caller |-> x]

\* beta working on a copy, x = list(x), put at the id 2
beta_Copy(h, ref) ==
    [heap |-> [h EXCEPT ![2] = [h[ref] EXCEPT ![1] = @ + 1]], ret |-> 2]

\* beta(x): x[0] = x[0] + 1 stores into the list x refers to, the caller's
\* own; ret is the id of the list returned
beta(h, ref) ==
    [heap |-> [h EXCEPT ![ref] = [@ EXCEPT ![1] = @ + 1]], ret |-> ref]

\* x = 1 and x = [1], before any call
ArgsIdle ==
    /\ x_int = 1
    /\ x_list = 1
    /\ heap = [id \in {1, 2} |-> IF id = 1 THEN <<1>> ELSE <<>>]
    /\ ret = [kind |-> "none", v |-> 0]
    /\ last = "none"
    /\ x0 = 1
    /\ l0 = <<1>>
    /\ ncalls = 0
    /\ nbeta = 0

Init ==
    /\ ShapeIdle
    /\ ArgsIdle
    /\ t \in Tables
    /\ ax \in {"None", "other"}
    /\ artists = [a \in AxesNames |-> IF a = "gca" THEN <<Line2D>> ELSE <<>>]
    /\ pc = "call"
    /\ i = 1
    /\ exc = ""
    /\ cov_local = <<>>
    /\ pos_local = <<>>

\* plot_ellipse(t, ax): if ax is None: ax = plt.gca()
Enter ==
    /\ pc = "call"
    /\ ax' = IF ax = "None" THEN "gca" ELSE ax
    /\ pc' = "loop"
    /\ UNCHANGED <<t, artists, i, exc, cov_local, pos_local, svars, avars>>

\* one pass of "for row in t" in which sl.svd returns
LoopBody ==
    /\ pc = "loop"
    /\ i <= Len(t)
    /\ LET row == t[i]
           c   == Cov(row)
       IN  /\ ~SvdRaises(c)
           /\ \E sgn \in SvdSigns(c) :
                LET ellip == cov_to_ellipse(c, Pos(row), sgn)
                IN  artists' = [artists EXCEPT ![ax] = add_artist(@, ellip)]
           /\ cov_local' = svd_leaves(c)
           /\ pos_local' = Pos(row)
    /\ i' = i + 1
    /\ UNCHANGED <<t, ax, pc, exc, svars, avars>>

\* one pass of "for row in t" in which sl.svd raises: the exception leaves
\* cov_to_ellipse and plot_ellipse, which catch nothing
LoopRaise ==
    /\ pc = "loop"
    /\ i <= Len(t)
    /\ SvdRaises(Cov(t[i]))
    /\ pc' = "raised"
    /\ exc' = "ValueError"
    /\ cov_local' = Cov(t[i])
    /\ pos_local' = Pos(t[i])
    /\ UNCHANGED <<t, ax, artists, i, svars, avars>>

\* the loop is exhausted: plot_ellipse returns None
Return ==
    /\ pc = "loop"
    /\ i > Len(t)
    /\ pc' = "done"
    /\ UNCHANGED <<t, ax, artists, i, exc, cov_local, pos_local, svars, avars>>

Next == Enter \/ LoopBody \/ LoopRaise \/ Return

Spec == Init /\ [][Next]_vars

\* ---------------------------------------------------- the shape classes
\* plot_ellipse is not running
EllipseIdle ==
    /\ t = <<>>
    /\ ax = "gca"
    /\ artists = [a \in AxesNames |-> IF a = "gca" THEN <<Line2D>> ELSE <<>>]
    /\ pc = "done"
    /\ i = 1
    /\ exc = ""
    /\ cov_local = <<>>
    /\ pos_local = <<>>

\* the objects the three constructors make
Shapes ==
    {Shape_init(x, y, cx, cy) :
        x \in 1..MaxDim, y \in 1..MaxDim, cx \in 0..MaxX, cy \in 0..MaxX}
    \cup {Square_init(x, cx, cy) :
        x \in 1..MaxDim, cx \in 0..MaxX, cy \in 0..MaxX}
    \cup {Circle_init(r, cx, cy) :
        r \in 1..MaxDim, cx \in 0..MaxX, cy \in 0..MaxX}

InitShape ==
    /\ EllipseIdle
    /\ ArgsIdle
    /\ obj \in Shapes
    /\ born = obj
    /\ moved = <<0, 0>>
    /\ nmoves = 0

\* s.move(dx, dy)
Move ==
    /\ nmoves < MaxMoves
    /\ \E dx \in (0 - MaxStep)..MaxStep, dy \in (0 - MaxStep)..MaxStep :
         /\ obj' = move(obj, dx, dy)
         /\ moved' = <<moved[1] + dx, moved[2] + dy>>
    /\ nmoves' = nmoves + 1
    /\ UNCHANGED <<born, evars, avars>>

NextShape == Move

SpecShape == InitShape /\ [][NextShape]_vars

\* ------------------------------------------------------- alpha and beta
\* the caller's x is an integer, or a list of one or two integers
InitArgs ==
    /\ EllipseIdle
    /\ ShapeIdle
    /\ x_int \in (0 - MaxInt)..MaxInt
    /\ x0 = x_int
    /\ x_list = 1
    /\ \E v \in (0 - MaxInt)..MaxInt : l0 \in {<<v>>, <<v, 0>>}
    /\ heap = [id \in {1, 2} |-> IF id = 1 THEN l0 ELSE <<>>]
    /\ ret = [kind |-> "none", v |-> 0]
    /\ last = "none"
    /\ ncalls = 0
    /\ nbeta = 0

\* alpha(x), x the caller's integer
CallAlpha ==
    /\ ncalls < MaxCalls
    /\ LET r == alpha(x_int)
       IN  /\ ret' = [kind |-> "int", v |-> r.ret]
           /\ x_int' = r.caller
    /\ last' = "alpha"
    /\ ncalls' = ncalls + 1
    /\ UNCHANGED <<x_list, heap, x0, l0, nbeta, evars, svars>>

\* beta(x), x the caller's list
CallBeta ==
    /\ ncalls < MaxCalls
    /\ LET r == beta(heap, x_list)
       IN  /\ ret' = [kind |-> "ref", v |-> r.ret]
           /\ heap' = r.heap
    /\ last' = "beta"
    /\ ncalls' = ncalls + 1
    /\ nbeta' = nbeta + 1
    /\ UNCHANGED <<x_int, x_list, x0, l0, evars, svars>>

NextArgs == CallAlpha \/ CallBeta

SpecArgs == InitArgs /\ [][NextArgs]_vars

\* ---------------------------------------------------------------- helpers
\* the ellipses plot_ellipse has added so far: what its axes holds beyond
\* what it held at the call
Held0(a) == IF a = "gca" THEN 1 ELSE 0

Target == IF ax = "None" THEN "gca" ELSE ax

Added == SubSeq(artists[Target], Held0(Target) + 1, Len(artists[Target]))

\* a record of the data model: rho in [-1, 1], sigmas finite and >= 0
ValidRow(row) ==
    /\ ~IsNaN(row.sx) /\ ~IsNaN(row.sy)
    /\ row.sx >= 0 /\ row.sy >= 0
    /\ row.pxy >= -2 /\ row.pxy <= 2

TypeOK ==
    /\ t \in Tables
    /\ pc \in {"call", "loop", "done", "raised"}
    /\ i \in 1..(Len(t) + 1)
    /\ Len(Added) = i - 1

\* the rows whose pass of the loop has ended with an ellipse added; the
\* ellipse of row j is Added[j]
Processed == 1..(i - 1)

\* the sign sl.svd gave the first singular vector of an ellipse's matrix
SgnOf(e) == IF e.angle.deg < 0 \/ e.angle.deg = 180 THEN -1 ELSE 1

\* the length w is the integer n
LenIs(w, n) == ~w.nan /\ w.sign = 1 /\ w.sq = SurdInt(n * n)

\* the length w is a number >= 0
LenGE0(w) == ~w.nan /\ (w.sign = 1 \/ SurdZero(w.sq))

\* the length k * w
ScaleLen(k, w) ==
    [w EXCEPT !.sq = Surd(k * k * w.sq.p, w.sq.s, k * k * k * k * w.sq.rad)]

\* the angle is exactly n degrees
AngleIs(theta, n) == theta.exact /\ theta.deg = n

\* a finite symmetric matrix is positive semi-definite
PSD(cov) ==
    /\ cov[1][1] >= 0
    /\ cov[2][2] >= 0
    /\ cov[1][1] * cov[2][2] - cov[1][2] * cov[2][1] >= 0

\* ------------------------------------------------------------------ claims

\* C1: when plot_ellipse has returned for a table of N valid records, it has
\* added exactly N ellipses, in the order of the rows, the j-th centred at
\* (t[j].x, t[j].y).
C1_OrderPreserved ==
    (pc = "done" /\ \A j \in 1..Len(t) : ValidRow(t[j])) =>
        /\ Len(Added) = Len(t)
        /\ \A j \in 1..Len(t) :
             /\ Added[j].kind = "Ellipse"
             /\ Added[j].xy = <<t[j].x, t[j].y>>

C1_Witness ==
    /\ pc = "done"
    /\ Len(t) >= 2
    /\ \A j \in 1..Len(t) : ValidRow(t[j])
    /\ <<t[1].x, t[1].y>> # <<t[2].x, t[2].y>>
    /\ Len(Added) = Len(t)

\* C2: no ellipse is returned for a record whose implied covariance matrix
\* is not positive semi-definite (the conversion fails instead).
C2_InvalidRejected ==
    \A j \in Processed : PSD(Cov(t[j]))

\* C3: when plot_ellipse has ended, by returning or by an exception, every
\* record that did not fail, before or after one that did, has its ellipse.
C3_FailureIsLocal ==
    pc \in {"done", "raised"} =>
        Len(Added) = Cardinality({j \in 1..Len(t) : ~SvdRaises(Cov(t[j]))})

\* C4: the ellipse of a valid record has width >= 0 and height >= 0.
C4_AxesNonNegative ==
    \A j \in Processed :
        ValidRow(t[j]) => LenGE0(Added[j].width) /\ LenGE0(Added[j].height)

C4_Witness ==
    \E j \in Processed :
        /\ ValidRow(t[j])
        /\ t[j].pxy < 0 /\ t[j].sx > 0 /\ t[j].sy > 0
        /\ LenGE0(Added[j].width) /\ LenGE0(Added[j].height)

\* C5 as stated: the angle of the ellipse of a valid record is in [0, 180).
C5_AngleHalfOpen ==
    \A j \in Processed :
        ValidRow(t[j]) => Added[j].angle.deg >= 0 /\ Added[j].angle.deg < 180

\* C5 as amended: the angle of the ellipse of a valid record is in
\* [-180, 180], the range of np.degrees(np.arctan2(...)).
C5_AngleRange ==
    \A j \in Processed :
        ValidRow(t[j]) =>
            LET theta == Added[j].angle
            IN  /\ theta.deg >= -180
                /\ theta.deg < 180 \/ (theta.deg = 180 /\ theta.exact)

C5_Witness ==
    \E j \in Processed :
        /\ ValidRow(t[j])
        /\ Added[j].angle.deg < 0

\* C6: the record (x=0, y=0, sx=3, sy=1, rho=0) gives the covariance
\* [[9,0],[0,1]] and the ellipse of centre (0,0), width 6, height 2 and
\* angle 0 (the larger singular value comes first).
C6_Scenario ==
    \A j \in Processed :
        t[j] = [x |-> 0, y |-> 0, sx |-> 3, sy |-> 1, pxy |-> 0] =>
            /\ Cov(t[j]) = <<<<2 * 9, 0>>, <<0, 2 * 1>>>>
            /\ Added[j].xy = <<0, 0>>
            /\ LenIs(Added[j].width, 6)
            /\ LenIs(Added[j].height, 2)
            /\ AngleIs(Added[j].angle, 0)

C6_Witness ==
    \E j \in Processed :
        /\ t[j] = [x |-> 0, y |-> 0, sx |-> 3, sy |-> 1, pxy |-> 0]
        /\ LenIs(Added[j].width, 6)

\* C7: for a valid record and k in 1..MaxK, the record with sx and sy
\* multiplied by k (the same rho, the same sign of the singular vector) has
\* an ellipse of k times the width, k times the height and the same angle.
C7_Scaling ==
    \A j \in Processed : \A k \in 1..MaxK :
        ValidRow(t[j]) =>
            LET e      == Added[j]
                scaled == [t[j] EXCEPT !.sx = k * @, !.sy = k * @]
                e2     == cov_to_ellipse(Cov(scaled), Pos(scaled), SgnOf(e))
            IN  /\ SgnOf(e) \in SvdSigns(Cov(scaled))
                /\ e2.width = ScaleLen(k, e.width)
                /\ e2.height = ScaleLen(k, e.height)
                /\ e2.angle = e.angle

C7_Witness ==
    \E j \in Processed :
        /\ ValidRow(t[j])
        /\ t[j].pxy = 1 /\ t[j].sx = 1 /\ t[j].sy = 2
        /\ ~Added[j].angle.exact
        /\ Added[j].width.sq.s # 0
        /\ MaxK >= 2

\* C8: for a record with rho = 0 and sx # sy, the major axis lies along x
\* (angle 0) when sx > sy and along y (angle 90) when sx < sy, so the record
\* with sx and sy exchanged has its major axis on the other coordinate axis
\* and an angle that differs by 90 degrees; the axis lengths are the same.
C8_Symmetry ==
    \A j \in Processed :
        (ValidRow(t[j]) /\ t[j].pxy = 0 /\ t[j].sx # t[j].sy) =>
            LET e       == Added[j]
                swapped == [t[j] EXCEPT !.sx = t[j].sy, !.sy = t[j].sx]
                e2      == cov_to_ellipse(Cov(swapped), Pos(swapped), 1)
            IN  /\ SvdSigns(Cov(swapped)) = {1}
                /\ AngleIs(e.angle, IF t[j].sx > t[j].sy THEN 0 ELSE 90)
                /\ AngleIs(e2.angle, IF t[j].sx > t[j].sy THEN 90 ELSE 0)
                /\ Abs(e.angle.deg - e2.angle.deg) = 90
                /\ e2.width = e.width
                /\ e2.height = e.height

C8_Witness ==
    \E j \in Processed :
        /\ t[j].pxy = 0 /\ t[j].sx = 1 /\ t[j].sy = 3
        /\ AngleIs(Added[j].angle, 90)

\* C9: a record with sx = sy = 0, whatever its rho, raises nothing and has
\* an ellipse of width 0 and height 0.
C9_Degenerate ==
    \A j \in 1..Len(t) :
        (t[j].sx = 0 /\ t[j].sy = 0) =>
            /\ ~(pc = "raised" /\ i = j)
            /\ j \in Processed =>
                 LenIs(Added[j].width, 0) /\ LenIs(Added[j].height, 0)

C9_Witness ==
    \E j \in Processed :
        /\ t[j].sx = 0 /\ t[j].sy = 0 /\ t[j].pxy # 0
        /\ LenIs(Added[j].width, 0)
        /\ pc = "done"

\* C10: the matrix plot_ellipse builds for a finite row is
\* [[sx^2, pxy*sx*sy], [pxy*sx*sy, sy^2]] (here in halves): it is symmetric,
\* and for a valid record it is positive semi-definite.
C10_CovSymmetricPSD ==
    \A j \in Processed :
        LET cov == Cov(t[j])
        IN  /\ cov[1][2] = cov[2][1]
            /\ cov[1][1] = 2 * t[j].sx * t[j].sx
            /\ cov[2][2] = 2 * t[j].sy * t[j].sy
            /\ cov[1][2] = t[j].pxy * t[j].sx * t[j].sy
            /\ ValidRow(t[j]) => PSD(cov)

C10_Witness ==
    \E j \in Processed :
        /\ ValidRow(t[j])
        /\ t[j].pxy = -2 /\ t[j].sx = 2 /\ t[j].sy = 3
        /\ PSD(Cov(t[j]))

\* the length w is a number > 0
LenPos(w) == ~w.nan /\ w.sign = 1 /\ ~SurdZero(w.sq) /\ ~SurdNeg(w.sq)

\* u <= v, for two surds that are integers or share their radicand
SurdLeq(u, v) ==
    LET c   == v.s - u.s
        rad == IF v.s # 0 THEN v.rad ELSE u.rad
    IN  ~SurdNeg([p |-> v.p - u.p,
                  s |-> IF c > 0 THEN 1 ELSE IF c < 0 THEN -1 ELSE 0,
                  rad |-> c * c * rad])

\* the lengths v <= w, both >= 0
LenLeq(v, w) == LenGE0(v) /\ LenGE0(w) /\ SurdLeq(v.sq, w.sq)

\* the implied matrix of a finite row has exactly one singular value zero:
\* |rho| = 1 with both sigmas positive, or exactly one sigma zero
SingularRow(row) ==
    /\ ~IsNaN(row.sx) /\ ~IsNaN(row.sy)
    /\ \/ (row.pxy \in {-2, 2} /\ row.sx > 0 /\ row.sy > 0)
       \/ (row.sx = 0 /\ row.sy > 0)
       \/ (row.sx > 0 /\ row.sy = 0)

\* C11: a record whose covariance matrix is exactly singular (rho = 1 or -1
\* with positive sigmas, or exactly one sigma 0) raises nothing and has an
\* ellipse with one axis of length 0, the height, and the other positive.
C11_SingularIsSegment ==
    \A j \in 1..Len(t) :
        SingularRow(t[j]) =>
            /\ ~(pc = "raised" /\ i = j)
            /\ j \in Processed =>
                 LenIs(Added[j].height, 0) /\ LenPos(Added[j].width)

C11_Witness ==
    \E j \in Processed :
        /\ t[j].pxy = -2 /\ t[j].sx = 2 /\ t[j].sy = 3
        /\ LenIs(Added[j].height, 0)
        /\ LenPos(Added[j].width)
        /\ pc = "done"

\* C12: for every finite record width >= height (the width is from the
\* larger singular value, the height from the smaller), and the angle is
\* the direction of the major axis: its double angle has the direction of
\* (a - d, 2b), the direction along which the variance is the largest.
C12_MajorAxisFirst ==
    \A j \in Processed :
        LET e   == Added[j]
            cov == Cov(t[j])
            p   == cov[1][1] - cov[2][2]
            q   == 2 * cov[1][2]
            c2  == e.angle.dir[1]
            s2  == e.angle.dir[2]
        IN  /\ LenLeq(e.height, e.width)
            /\ p * s2 = q * c2
            /\ (p # 0 \/ q # 0) => p * c2 + q * s2 > 0

C12_Witness ==
    \E j \in Processed :
        /\ t[j].pxy = 1 /\ t[j].sx = 1 /\ t[j].sy = 2
        /\ Added[j].angle.dir[1] < 0
        /\ LenLeq(Added[j].height, Added[j].width)
        /\ Added[j].width # Added[j].height

\* p is a prefix of q
IsPrefix(p, q) == Len(p) <= Len(q) /\ SubSeq(q, 1, Len(p)) = p

\* C13: no step of plot_ellipse changes a row of the table; the target axes
\* keeps every artist it held, in place, and only gains ellipses at the end;
\* any other axes is untouched; and after a pass of the loop, cov and pos
\* are what that pass built from its row: cov_to_ellipse has changed neither.
C13_NoSideEffects ==
    [][ /\ t' = t
        /\ \A a \in AxesNames :
             /\ IsPrefix(artists[a], artists'[a])
             /\ a # Target => artists'[a] = artists[a]
        /\ i' = i + 1 => (cov_local' = Cov(t[i]) /\ pos_local' = Pos(t[i]))
      ]_vars

C13_Witness ==
    /\ pc = "done"
    /\ Len(t) >= 2
    /\ ax = "gca"
    /\ Len(artists["gca"]) = 1 + Len(t)
    /\ artists["gca"][1] = Line2D
    /\ artists["other"] = <<>>
    /\ cov_local = Cov(t[Len(t)])
    /\ pos_local = Pos(t[Len(t)])

\* C14: after any calls of move on a Shape, a Square or a Circle, the centre
\* is the centre __init__ set plus the sums of the dx and of the dy, and
\* the name, the dimensions (x, y or r) and the value of area() are those
\* __init__ set.
C14_MoveOnlyMovesCentre ==
    /\ obj.cx = born.cx + moved[1]
    /\ obj.cy = born.cy + moved[2]
    /\ obj.name = born.name
    /\ [obj EXCEPT !.cx = born.cx, !.cy = born.cy] = born
    /\ area(obj) = area(born)

C14_Witness ==
    /\ obj.cls = "Circle"
    /\ nmoves = 2
    /\ moved[1] # moved[2]
    /\ moved[1] # 0
    /\ obj.cx = born.cx + moved[1]
    /\ area(obj) = [rat |-> 0, pi |-> 4]

\* C15: alpha(x) returns x + 1 and leaves the caller's integer as it was;
\* beta(x) returns the caller's own list, and after n calls of beta that
\* list has its first item grown by n and its other items as they were.
C15_ArgumentMutability ==
    /\ x_int = x0
    /\ last = "alpha" => ret = [kind |-> "int", v |-> x0 + 1]
    /\ heap[x_list] = [l0 EXCEPT ![1] = @ + nbeta]
    /\ last = "beta" => ret = [kind |-> "ref", v |-> x_list]

C15_Witness ==
    /\ nbeta = 2
    /\ ncalls = 3
    /\ last = "beta"
    /\ Len(l0) = 2
    /\ heap[x_list][1] = l0[1] + 2
    /\ ret.v = x_list
    /\ x_int = x0

====
